---- MODULE Spec2Model ----
(***************************************************************************)
(* Master/worker batch coordinator of lab/lab2.c and lab/lab3.c.           *)
(*                                                                         *)
(* Rank 0 (the master) cuts full_data into chunks, sends one compressed    *)
(* chunk to every worker rank, waits for each reply under a heartbeat      *)
(* deadline, marks silent workers failed and then re-sends chunks to the   *)
(* workers that are still alive.  Every other rank (a worker) receives one *)
(* message, multiplies the chunk by its rank and sends it back.            *)
(*                                                                         *)
(* The two programs share this protocol; the variable lab (2 or 3) selects *)
(* the places where they differ: the number of bytes handed to compress /  *)
(* uncompress, and the break at the end of lab3's redistribution loop.     *)
(*                                                                         *)
(* DATA_SIZE and CHUNK_SIZE are scaled down (MaxChunks chunks of           *)
(* MaxChunkSize elements); the 10ms/5s polling loop is MaxPolls polls.     *)
(* Buffers are sequences of bytes; a byte that was never written is the    *)
(* indeterminate value Uninit and becomes an arbitrary byte when read; the  *)
(* byte is arbitrary but the same for all never-written memory of a run.   *)
(*                                                                         *)
(* Spec is the protocol with a worker's processing as one step; FairSpec   *)
(* is Spec with the master's steps weakly fair; ThreadSpec is one lab3     *)
(* worker from process_data_multithreaded(rank, data, data_size) to its    *)
(* reply, one loop iteration of a thread per step, for data_size in        *)
(* 0 .. MaxLen (the program calls it with data_size = CHUNK_SIZE, and the  *)
(* compressed bytes are those of the data_size elements).                  *)
(***************************************************************************)
EXTENDS Integers, Sequences, FiniteSets, TLC

\* ---------------------------------------------------------------- bounds
\* largest MPI_Comm_size explored (ranks 0 .. MaxSize-1)
MaxSize == 4
\* DATA_SIZE / CHUNK_SIZE of the scaled dataset
MaxChunks == 2
\* elements per chunk of the scaled dataset
MaxChunkSize == 4
\* polls that fit into HEARTBEAT_TIMEOUT (the program: 5s / 10ms)
MaxPolls == 2
\* largest data_size handed to process_data_multithreaded
MaxLen == 6

\* ------------------------------------------------------ program constants
CHUNK_SIZE == MaxChunkSize
DATA_SIZE == MaxChunks * CHUNK_SIZE
\* sizeof(int)
SizeofInt == 4
\* compressed_data[CHUNK_SIZE + 100]
BufSlack == 100
\* lab3: threads per worker
NUM_THREADS == 4

\* indeterminate content of a byte never written
Uninit == 256
\* values an indeterminate byte may turn out to hold
JunkBytes == {0, 255}

VARIABLES
    lab,                      \* 2: lab2.c, 3: lab3.c
    size,                     \* MPI_Comm_size
    pcM,                      \* master's position
    iM,                       \* master's loop variable i
    chunk_index,
    failed_nodes,
    num_failed_nodes,
    flag,
    polls,                    \* iterations of the heartbeat loop so far
    recv_request,             \* master's pending receive, or NoRequest
    received_compressed_data, \* master's receive buffer (bytes that arrived)
    status_count,
    received_data,
    toWorker,                 \* messages in flight, master -> worker
    toMaster,                 \* messages in flight, worker -> master
    pcW,                      \* worker's position
    dataW,                    \* worker's data[CHUNK_SIZE], as bytes
    junk,                     \* what never-written memory holds, once read
    outcome,                  \* what the master printed last / returned
    assignments,              \* history: one record per chunk sent
    cancelled,                \* history: workers whose receive was cancelled
    late,                     \* history: workers that replied after the cancel
    delivered,                \* history: workers whose reply matched a receive
    observed,                 \* history: workers whose reply a poll observed
    \* one lab3 worker between uncompress and MPI_Isend (ThreadSpec)
    tMain,                    \* the worker's main thread's position
    tT,                       \* loop variable t of process_data_multithreaded
    tRank,                    \* rank
    tLen,                     \* data_size
    tData,                    \* data[], as bytes
    tasks,                    \* tasks[NUM_THREADS]: start_idx, end_idx
    threads,                  \* threads[NUM_THREADS]: not created/running/exited
    thrI,                     \* loop variable i of each thread_process
    tSend,                    \* compressed_data_send
    tData0,                   \* history: data[] on entry
    tWrites                   \* history: the threads that wrote each element

vars == <<lab, size, pcM, iM, chunk_index, failed_nodes, num_failed_nodes,
          flag, polls, recv_request, received_compressed_data, status_count,
          received_data, toWorker, toMaster, pcW, dataW, junk, outcome,
          assignments, cancelled, late, delivered, observed,
          tMain, tT, tRank, tLen, tData, tasks, threads, thrI, tSend, tData0,
          tWrites>>

threadVars == <<tMain, tT, tRank, tLen, tData, tasks, threads, thrI, tSend,
                tData0, tWrites>>

protocolVars == <<lab, size, pcM, iM, chunk_index, failed_nodes,
                  num_failed_nodes, flag, polls, recv_request,
                  received_compressed_data, status_count, received_data,
                  toWorker, toMaster, pcW, dataW, junk, outcome, assignments,
                  cancelled, late, delivered, observed>>

masterVars == <<pcM, iM, chunk_index, failed_nodes, num_failed_nodes, flag,
                polls, recv_request, received_compressed_data, status_count,
                received_data, outcome>>
workerVars == <<pcW, dataW, junk>>
historyVars == <<assignments, cancelled, late, delivered, observed>>

Workers == 1 .. (size - 1)
ChunkIDs == 0 .. ((DATA_SIZE \div CHUNK_SIZE) - 1)
NoRequest == [src |-> 0, complete |-> FALSE]

Min(a, b) == IF a < b THEN a ELSE b

\* ------------------------------------------------------------ int <-> bytes
IntToBytes(v) ==
    << v % 256, (v \div 256) % 256, (v \div 65536) % 256,
       (v \div 16777216) % 256 >>

Fill(n, b) == [k \in 1 .. n |-> b]

\* full_data[i] = i; an element outside the array is indeterminate
full_data(i) ==
    IF i >= 0 /\ i < DATA_SIZE THEN IntToBytes(i) ELSE Fill(SizeofInt, Uninit)

\* the first n bytes of memory starting at &full_data[first]
RECURSIVE MemoryAt(_, _)
MemoryAt(first, n) ==
    IF n <= 0 THEN <<>>
    ELSE IF n >= SizeofInt
         THEN full_data(first) \o MemoryAt(first + 1, n - SizeofInt)
         ELSE SubSeq(full_data(first), 1, n)

\* ------------------------------------------------------------------ codec
\* zlib's compress/uncompress, modelled as a run-length code closed by a
\* zero count: <<n1, b1, n2, b2, ..., 0>>.
RECURSIVE RunLen(_, _)
RunLen(s, n) ==
    IF n < Len(s) /\ n < 255 /\ s[n + 1] = s[1] THEN RunLen(s, n + 1) ELSE n

\* (the run length and the rest of the input are bound as values, nr, so
\* that each is computed once)
RECURSIVE Deflate(_)
Deflate(s) ==
    IF s = <<>> THEN <<0>>
    ELSE CHOOSE z \in {<<nr[1], s[1]>> \o Deflate(nr[2]) :
                          nr \in {<<n, SubSeq(s, n + 1, Len(s))>> :
                                     n \in {RunLen(s, 1)}}} : TRUE

\* [out |-> bytes decoded so far, ended |-> the closing zero was seen]
RECURSIVE Inflate(_)
Inflate(z) ==
    IF z = <<>> THEN [out |-> <<>>, ended |-> FALSE]
    ELSE IF z[1] = 0 THEN [out |-> <<>>, ended |-> TRUE]
    ELSE IF Len(z) < 2 THEN [out |-> <<>>, ended |-> FALSE]
    ELSE CHOOSE r \in {[out |-> Fill(z[1], z[2]) \o rest.out,
                          ended |-> rest.ended] :
                          rest \in {Inflate(t) : t \in {SubSeq(z, 3, Len(z))}}} :
             TRUE

\* compress(dest, &destLen, source, sourceLen) with destLen = cap on entry
compress(cap, source) ==
    LET z == Deflate(source)
    IN  IF Len(z) <= cap
        THEN [ret |-> "Z_OK", dest |-> z]
        ELSE [ret |-> "Z_BUF_ERROR", dest |-> SubSeq(z, 1, cap)]

\* uncompress(dest, &destLen, source, sourceLen): dest is the buffer before
\* the call; the decoded bytes that fit overwrite its beginning.
uncompress(dest, destLen, source) ==
    LET r == Inflate(source)
        n == Min(Min(Len(r.out), destLen), Len(dest))
    IN  [ret |-> IF ~r.ended THEN "Z_DATA_ERROR"
                 ELSE IF Len(r.out) > destLen THEN "Z_BUF_ERROR"
                 ELSE "Z_OK",
         dest |-> SubSeq(r.out, 1, n) \o SubSeq(dest, n + 1, Len(dest))]

\* bytes handed to compress / expected from uncompress for one chunk
SourceLen(l) == IF l = 2 THEN CHUNK_SIZE ELSE CHUNK_SIZE * SizeofInt

\* sizeof(compressed_data)
DestCap == CHUNK_SIZE + BufSlack

ChunkBytes == CHUNK_SIZE * SizeofInt

\* --------------------------------------------------------------- the kernel
HasUninit(b) == \E k \in 1 .. Len(b) : b[k] = Uninit

\* an indeterminate byte reads as the arbitrary byte j
Resolve(b, j) == [k \in 1 .. Len(b) |-> IF b[k] = Uninit THEN j ELSE b[k]]

\* the int32 product e * rank of a little-endian element e, kept to 32 bits
RECURSIVE MulBytes(_, _, _)
MulBytes(e, rank, carry) ==
    IF e = <<>> THEN <<>>
    ELSE LET t == Head(e) * rank + carry
         IN  <<t % 256>> \o MulBytes(Tail(e), rank, t \div 256)

\* data[i] = data[i] * rank for i in [lo, hi)
MulRange(b, rank, lo, hi) ==
    [k \in 1 .. Len(b) |->
        LET e == (k - 1) \div SizeofInt
            v == SubSeq(b, e * SizeofInt + 1, (e + 1) * SizeofInt)
        IN  IF e >= lo /\ e < hi
            THEN MulBytes(v, rank, 0)[((k - 1) % SizeofInt) + 1]
            ELSE b[k]]

process_data(rank, b) == MulRange(b, rank, 0, CHUNK_SIZE)

\* ----------------------------------------------------------------- history
\* round 1: initial distribution, round 2: redistribution
Assign(c, w, r) ==
    [chunk |-> c, worker |-> w, round |-> r, state |-> "InFlight",
     result |-> <<>>]

\* the assignment of worker w the master was waiting on gets its outcome
Settle(as, w, st, res) ==
    [k \in 1 .. Len(as) |->
        IF as[k].worker = w /\ as[k].round = 1 /\ as[k].state = "InFlight"
        THEN [as[k] EXCEPT !.state = st, !.result = res] ELSE as[k]]

\* --------------------------------------------------------------------- Init
\* the state of every rank after the declarations of main
ProtocolInit(labs, sizes) ==
    /\ lab \in labs
    /\ size \in sizes
    /\ pcM = "distribute"
    /\ iM = 1
    /\ chunk_index = 0
    /\ failed_nodes = [i \in 0 .. (size - 1) |-> 0]
    /\ num_failed_nodes = 0
    /\ flag = 0
    /\ polls = 0
    /\ recv_request = NoRequest
    /\ received_compressed_data = <<>>
    /\ status_count = 0
    /\ received_data = Fill(ChunkBytes, Uninit)
    /\ toWorker = [w \in Workers |-> <<>>]
    /\ toMaster = [w \in Workers |-> <<>>]
    /\ pcW = [w \in Workers |-> "receive"]
    /\ dataW = [w \in Workers |-> Fill(ChunkBytes, Uninit)]
    /\ junk = Uninit
    /\ outcome = "running"
    /\ assignments = <<>>
    /\ cancelled = {}
    /\ late = {}
    /\ delivered = {}
    /\ observed = {}

\* the worker's threads are not looked into
ThreadsOff ==
    /\ tMain = "off"
    /\ tT = 0
    /\ tRank = 0
    /\ tLen = 0
    /\ tData = <<>>
    /\ tasks = <<>>
    /\ threads = <<>>
    /\ thrI = <<>>
    /\ tSend = <<>>
    /\ tData0 = <<>>
    /\ tWrites = <<>>

Init == ProtocolInit({2, 3}, 2 .. MaxSize) /\ ThreadsOff

\* ------------------------------------------------------------------ master
\* a guard that forgets to look at failed_nodes
AliveAlways(i) == TRUE

\* failed_nodes[i] == 0
Alive(i) == failed_nodes[i] = 0

\* a loop that forgets chunk_index++
NextChunkIndexStuck(c) == c

\* chunk_index++
NextChunkIndex(c) == c + 1

\* compress(compressed_data, &compressed_size, &full_data[c * CHUNK_SIZE], n)
EncodeChunk(c) ==
    CHOOSE z \in {compress(DestCap, m).dest :
                     m \in {MemoryAt(c * CHUNK_SIZE, SourceLen(lab))}} : TRUE

\* MPI_Isend(compressed_data, compressed_size, ..., i, ...); MPI_Wait
SendChunk(i, c, round) ==
    /\ toWorker' = [toWorker EXCEPT ![i] = Append(@, EncodeChunk(c))]
    /\ assignments' = Append(assignments, Assign(c, i, round))

\* a timeout branch that leaves the receive pending
MPI_CancelIgnored(req) == req

\* MPI_Cancel(&recv_request); MPI_Request_free(&recv_request)
MPI_Cancel(req) == NoRequest

\* a branch that never sees the reply
ArrivedNever(f) == FALSE

\* if (flag)
Arrived(f) == f # 0

\* a wait that blocks instead of giving up at the deadline
ClockTestNoDeadline(p) == IF p < MaxPolls THEN {TRUE} ELSE {}

\* the values (MPI_Wtime() - start_time) < HEARTBEAT_TIMEOUT may take after p
\* polls of 10ms each: it may turn false at any time, and has after MaxPolls
ClockTest(p) == IF p < MaxPolls THEN {TRUE, FALSE} ELSE {FALSE}

\* lab3: if (chunk_index * CHUNK_SIZE >= DATA_SIZE) break;
RedistributeBreak(c) == lab = 3 /\ c * CHUNK_SIZE >= DATA_SIZE

\* one iteration of: for (i = 1; i < size; i++) if (failed_nodes[i] == 0) {send}
MasterDistribute ==
    /\ pcM = "distribute" /\ iM < size
    /\ IF Alive(iM)
       THEN /\ SendChunk(iM, chunk_index, 1)
            /\ chunk_index' = NextChunkIndex(chunk_index)
       ELSE UNCHANGED <<toWorker, assignments, chunk_index>>
    /\ iM' = iM + 1
    /\ UNCHANGED <<threadVars, lab, size, pcM, failed_nodes, num_failed_nodes, flag, polls,
                   recv_request, received_compressed_data, status_count,
                   received_data, toMaster, workerVars, outcome,
                   cancelled, late, delivered,
                   observed>>

\* the distribution loop ends, the receive loop starts at i = 1
MasterDistributeEnd ==
    /\ pcM = "distribute" /\ iM >= size
    /\ pcM' = "receive"
    /\ iM' = 1
    /\ UNCHANGED <<threadVars, lab, size, chunk_index, failed_nodes, num_failed_nodes, flag,
                   polls, recv_request, received_compressed_data, status_count,
                   received_data, toWorker, toMaster, workerVars, outcome,
                   historyVars>>

\* receive loop head: MPI_Irecv from worker i, flag = 0, start_time = now
MasterPostRecv ==
    /\ pcM = "receive" /\ iM < size
    /\ IF Alive(iM)
       THEN /\ recv_request' = [src |-> iM, complete |-> FALSE]
            /\ flag' = 0
            /\ polls' = 0
            /\ pcM' = "heartbeat"
            /\ iM' = iM
       ELSE /\ iM' = iM + 1
            /\ UNCHANGED <<recv_request, flag, polls, pcM>>
    /\ UNCHANGED <<threadVars, lab, size, chunk_index, failed_nodes, num_failed_nodes,
                   received_compressed_data, status_count, received_data,
                   toWorker, toMaster, workerVars, outcome, historyVars>>

\* the MPI library matches worker w's message with the pending receive
Deliver(w) ==
    /\ recv_request.src = w /\ ~recv_request.complete
    /\ toMaster[w] # <<>>
    /\ received_compressed_data' = Head(toMaster[w])
    /\ toMaster' = [toMaster EXCEPT ![w] = Tail(@)]
    /\ recv_request' = [recv_request EXCEPT !.complete = TRUE]
    /\ delivered' = delivered \cup {w}
    /\ UNCHANGED <<threadVars, lab, size, pcM, iM, chunk_index, failed_nodes,
                   num_failed_nodes, flag, polls, status_count, received_data,
                   toWorker, workerVars, outcome, assignments, cancelled, late,
                   observed>>

\* loop body: MPI_Test(&recv_request, &flag, &status); usleep(10000)
MasterPoll ==
    /\ pcM = "heartbeat" /\ ~Arrived(flag) /\ TRUE \in ClockTest(polls)
    /\ polls' = polls + 1
    /\ IF recv_request.complete
       THEN /\ flag' = 1
            /\ status_count' = Len(received_compressed_data)
            /\ recv_request' = NoRequest
            /\ observed' = observed \cup {iM}
       ELSE UNCHANGED <<flag, status_count, recv_request, observed>>
    /\ UNCHANGED <<threadVars, lab, size, pcM, iM, chunk_index, failed_nodes,
                   num_failed_nodes, received_compressed_data, received_data,
                   toWorker, toMaster, workerVars, outcome, assignments,
                   cancelled, late, delivered>>

\* loop left with flag set: uncompress into received_data
MasterArrived ==
    /\ pcM = "heartbeat" /\ Arrived(flag)
    /\ received_data' =
         uncompress(received_data, SourceLen(lab),
                    SubSeq(received_compressed_data, 1, status_count)).dest
    /\ assignments' = Settle(assignments, iM, "Completed", received_data')
    /\ iM' = iM + 1
    /\ pcM' = "receive"
    /\ UNCHANGED <<threadVars, lab, size, chunk_index, failed_nodes, num_failed_nodes, flag,
                   polls, recv_request, received_compressed_data, status_count,
                   toWorker, toMaster, workerVars, outcome,
                   cancelled, late, delivered,
                   observed>>

\* loop left by the deadline with flag still 0: the worker is failed
MasterTimedOut ==
    /\ pcM = "heartbeat" /\ ~Arrived(flag) /\ FALSE \in ClockTest(polls)
    /\ failed_nodes' = [failed_nodes EXCEPT ![iM] = 1]
    /\ num_failed_nodes' = num_failed_nodes + 1
    /\ recv_request' = MPI_Cancel(recv_request)
    /\ cancelled' = cancelled \cup {iM}
    /\ assignments' = Settle(assignments, iM, "Lost", <<>>)
    /\ iM' = iM + 1
    /\ pcM' = "receive"
    /\ UNCHANGED <<threadVars, lab, size, chunk_index, flag, polls,
                   received_compressed_data, status_count, received_data,
                   toWorker, toMaster, workerVars, outcome, late, delivered,
                   observed>>

\* receive loop ends: if (num_failed_nodes > 0) { chunk_index = 0; ... }
MasterReceiveEnd ==
    /\ pcM = "receive" /\ iM >= size
    /\ IF num_failed_nodes > 0
       THEN /\ pcM' = "redistribute"
            /\ chunk_index' = 0
            /\ iM' = 1
       ELSE /\ pcM' = "complete"
            /\ UNCHANGED <<chunk_index, iM>>
    /\ UNCHANGED <<threadVars, lab, size, failed_nodes, num_failed_nodes, flag, polls,
                   recv_request, received_compressed_data, status_count,
                   received_data, toWorker, toMaster, workerVars, outcome,
                   historyVars>>

\* one iteration of the redistribution loop
MasterRedistribute ==
    /\ pcM = "redistribute" /\ iM < size
    /\ IF Alive(iM)
       THEN /\ SendChunk(iM, chunk_index, 2)
            /\ chunk_index' = NextChunkIndex(chunk_index)
            /\ pcM' = IF RedistributeBreak(chunk_index') THEN "complete"
                      ELSE "redistribute"
       ELSE UNCHANGED <<toWorker, assignments, chunk_index, pcM>>
    /\ iM' = iM + 1
    /\ UNCHANGED <<threadVars, lab, size, failed_nodes, num_failed_nodes, flag, polls,
                   recv_request, received_compressed_data, status_count,
                   received_data, toMaster, workerVars, outcome,
                   cancelled, late, delivered,
                   observed>>

MasterRedistributeEnd ==
    /\ pcM = "redistribute" /\ iM >= size
    /\ pcM' = "complete"
    /\ UNCHANGED <<threadVars, lab, size, iM, chunk_index, failed_nodes, num_failed_nodes,
                   flag, polls, recv_request, received_compressed_data,
                   status_count, received_data, toWorker, toMaster, workerVars,
                   outcome, historyVars>>

\* printf("Master: Data processing completed."); MPI_Finalize(); return 0
MasterComplete ==
    /\ pcM = "complete"
    /\ outcome' = "Data processing completed, return 0"
    /\ pcM' = "done"
    /\ UNCHANGED <<threadVars, lab, size, iM, chunk_index, failed_nodes, num_failed_nodes,
                   flag, polls, recv_request, received_compressed_data,
                   status_count, received_data, toWorker, toMaster, workerVars,
                   historyVars>>

\* ------------------------------------------------------------------ worker
\* MPI_Irecv from rank 0; MPI_Wait; uncompress into data
WorkerReceive(w) ==
    /\ pcW[w] = "receive"
    /\ toWorker[w] # <<>>
    /\ dataW' = [dataW EXCEPT ![w] =
                    uncompress(@, SourceLen(lab), Head(toWorker[w])).dest]
    /\ toWorker' = [toWorker EXCEPT ![w] = Tail(@)]
    /\ pcW' = [pcW EXCEPT ![w] = "process"]
    /\ UNCHANGED <<threadVars, lab, size, masterVars, toMaster, junk, historyVars>>

\* process_data(rank, data): every element is read and multiplied by rank
\* (lab3 hands the same loop body to its threads, one sub-range each)
WorkerProcess(w) ==
    /\ pcW[w] = "process"
    /\ \E j \in (IF junk = Uninit THEN JunkBytes ELSE {junk}) :
          /\ dataW' = [dataW EXCEPT ![w] = process_data(w, Resolve(@, j))]
          /\ junk' = IF HasUninit(dataW[w]) THEN j ELSE junk
    /\ pcW' = [pcW EXCEPT ![w] = "send"]
    /\ UNCHANGED <<threadVars, lab, size, masterVars, toWorker, toMaster, historyVars>>

\* compress(data); MPI_Isend to rank 0; MPI_Wait; MPI_Finalize
WorkerSend(w) ==
    /\ pcW[w] = "send"
    /\ toMaster' = [toMaster EXCEPT ![w] =
          Append(@, compress(DestCap, SubSeq(dataW[w], 1, SourceLen(lab))).dest)]
    /\ late' = IF w \in cancelled THEN late \cup {w} ELSE late
    /\ pcW' = [pcW EXCEPT ![w] = "done"]
    /\ UNCHANGED <<threadVars, lab, size, masterVars, toWorker, dataW, junk, assignments,
                   cancelled, delivered,
                   observed>>

Next ==
    \/ MasterDistribute
    \/ MasterDistributeEnd
    \/ MasterPostRecv
    \/ MasterPoll
    \/ MasterArrived
    \/ MasterTimedOut
    \/ MasterReceiveEnd
    \/ MasterRedistribute
    \/ MasterRedistributeEnd
    \/ MasterComplete
    \/ \E w \in Workers : Deliver(w)
    \/ \E w \in Workers : WorkerReceive(w)
    \/ \E w \in Workers : WorkerProcess(w)
    \/ \E w \in Workers : WorkerSend(w)

Spec == Init /\ [][Next]_vars

\* rank 0 is a running process: while it has a next statement, it takes it
MasterStep ==
    \/ MasterDistribute
    \/ MasterDistributeEnd
    \/ MasterPostRecv
    \/ MasterPoll
    \/ MasterArrived
    \/ MasterTimedOut
    \/ MasterReceiveEnd
    \/ MasterRedistribute
    \/ MasterRedistributeEnd
    \/ MasterComplete

\* termination is explored for one rank less than safety
FairInit == ProtocolInit({2, 3}, 2 .. (MaxSize - 1)) /\ ThreadsOff

\* no assumption on workers or on the network: they may stay silent for ever
FairSpec == FairInit /\ [][Next]_vars /\ WF_vars(MasterStep)

TypeOK ==
    /\ lab \in {2, 3}
    /\ size \in 2 .. MaxSize
    /\ num_failed_nodes = Cardinality({w \in Workers : failed_nodes[w] = 1})
    /\ flag \in {0, 1}
    /\ polls \in 0 .. MaxPolls


\* ----------------------------------------------- lab3: the worker's threads
\* One lab3 worker from the call of process_data_multithreaded(rank, data,
\* data_size) to its reply.  One iteration of thread_process's loop is one
\* step: it reads and writes the one element data[i].
ThreadIDs == 0 .. (NUM_THREADS - 1)

\* int chunk_per_thread = data_size / NUM_THREADS
chunk_per_thread(len) == len \div NUM_THREADS

\* every thread starting at the beginning of the chunk
StartIdxZero(t, cpt) == 0

\* tasks[t].start_idx = t * chunk_per_thread
StartIdx(t, cpt) == t * cpt

\* a last thread that stops like the others
EndIdxNoRemainder(t, cpt, len) == (t + 1) * cpt

\* tasks[t].end_idx: the last thread goes to the end of the chunk
EndIdx(t, cpt, len) == IF t = NUM_THREADS - 1 THEN len ELSE (t + 1) * cpt

NoTask == [thread_id |-> -1, rank |-> 0, start_idx |-> 0, end_idx |-> 0]

\* a join that does not wait
JoinReturnsAtOnce(st) == TRUE

\* pthread_join(threads[t], NULL) returns once the thread has exited
JoinReturns(st) == st = "exited"

ThreadInit ==
    /\ ProtocolInit({3}, {MaxSize})
    /\ tMain = "create"
    /\ tT = 0
    /\ tRank \in Workers
    /\ tLen \in 0 .. MaxLen
    /\ tData = MemoryAt(0, tLen * SizeofInt)
    /\ tData0 = tData
    /\ tasks = [t \in ThreadIDs |-> NoTask]
    /\ threads = [t \in ThreadIDs |-> "none"]
    /\ thrI = [t \in ThreadIDs |-> 0]
    /\ tSend = <<>>
    /\ tWrites = [i \in 0 .. (tLen - 1) |-> <<>>]

\* one iteration of the creation loop: fill tasks[t], pthread_create
SpawnThread ==
    /\ tMain = "create"
    /\ tasks' = [tasks EXCEPT ![tT] =
                    [thread_id |-> tT, rank |-> tRank,
                     start_idx |-> StartIdx(tT, chunk_per_thread(tLen)),
                     end_idx |-> EndIdx(tT, chunk_per_thread(tLen), tLen)]]
    /\ threads' = [threads EXCEPT ![tT] = "running"]
    /\ thrI' = [thrI EXCEPT ![tT] = tasks'[tT].start_idx]
    /\ IF tT + 1 < NUM_THREADS
       THEN tT' = tT + 1 /\ tMain' = tMain
       ELSE tT' = 0 /\ tMain' = "join"
    /\ UNCHANGED <<protocolVars, tRank, tLen, tData, tSend, tData0, tWrites>>

\* thread_process, one iteration: task->data[i] = task->data[i] * rank
ThreadMultiply(t) ==
    /\ threads[t] = "running"
    /\ thrI[t] < tasks[t].end_idx
    /\ tData' = MulRange(tData, tasks[t].rank, thrI[t], thrI[t] + 1)
    /\ tWrites' = [tWrites EXCEPT ![thrI[t]] = Append(@, t)]
    /\ thrI' = [thrI EXCEPT ![t] = @ + 1]
    /\ UNCHANGED <<protocolVars, tMain, tT, tRank, tLen, tasks, threads, tSend,
                   tData0>>

\* thread_process: the loop is over, pthread_exit(NULL)
ThreadExit(t) ==
    /\ threads[t] = "running"
    /\ thrI[t] >= tasks[t].end_idx
    /\ threads' = [threads EXCEPT ![t] = "exited"]
    /\ UNCHANGED <<protocolVars, tMain, tT, tRank, tLen, tData, tasks, thrI,
                   tSend, tData0, tWrites>>

\* one iteration of the join loop
JoinThread ==
    /\ tMain = "join"
    /\ JoinReturns(threads[tT])
    /\ IF tT + 1 < NUM_THREADS
       THEN tT' = tT + 1 /\ tMain' = tMain
       ELSE tT' = 0 /\ tMain' = "compress"
    /\ UNCHANGED <<protocolVars, tRank, tLen, tData, tasks, threads, thrI,
                   tSend, tData0, tWrites>>

\* back in main: compress(compressed_data_send, ..., data, ...)
WorkerCompress ==
    /\ tMain = "compress"
    /\ tSend' = compress(DestCap, tData).dest
    /\ tMain' = "send"
    /\ UNCHANGED <<protocolVars, tT, tRank, tLen, tData, tasks, threads, thrI,
                   tData0, tWrites>>

\* MPI_Isend(compressed_data_send, ...) to rank 0; MPI_Wait
WorkerReply ==
    /\ tMain = "send"
    /\ toMaster' = [toMaster EXCEPT ![tRank] = Append(@, tSend)]
    /\ tMain' = "done"
    /\ UNCHANGED <<lab, size, masterVars, toWorker, workerVars, historyVars,
                   tT, tRank, tLen, tData, tasks, threads, thrI, tSend,
                   tData0, tWrites>>

ThreadNext ==
    \/ SpawnThread
    \/ \E t \in ThreadIDs : ThreadMultiply(t)
    \/ \E t \in ThreadIDs : ThreadExit(t)
    \/ JoinThread
    \/ WorkerCompress
    \/ WorkerReply

ThreadSpec == ThreadInit /\ [][ThreadNext]_vars

\* ================================================================== claims
AssignmentIDs == 1 .. Len(assignments)

\* the Completed results recorded for chunk c
CompletedFor(c) ==
    {k \in AssignmentIDs :
        assignments[k].chunk = c /\ assignments[k].state = "Completed"}

\* the assignments handed to worker w
SentTo(w) == {k \in AssignmentIDs : assignments[k].worker = w}

AliveWorkers == {w \in Workers : failed_nodes[w] = 0}

\* C1: when the master has reached its completion point, every chunk ID in
\* 0 .. DATA_SIZE/CHUNK_SIZE - 1 has exactly one Completed result.
C1_EveryChunkCompletedOnce ==
    pcM = "done" => \A c \in ChunkIDs : Cardinality(CompletedFor(c)) = 1

\* C2: every chunk sent during redistribution lacks a Completed result; a
\* chunk whose reply was received in time is never sent again.
C2_RedistributesOnlyIncomplete ==
    \A k \in AssignmentIDs :
        assignments[k].round = 2 => CompletedFor(assignments[k].chunk) = {}

\* C3: when exactly one worker timed out and another is alive, the chunk of
\* the timed-out worker is re-sent to an alive worker in redistribution and
\* the run ends with that chunk Completed.
C3_LostChunkRedistributedAndCompleted ==
    (pcM = "done" /\ num_failed_nodes = 1 /\ AliveWorkers # {}) =>
        \A k \in AssignmentIDs :
            assignments[k].state = "Lost" =>
                /\ \E m \in AssignmentIDs :
                      /\ assignments[m].round = 2
                      /\ assignments[m].chunk = assignments[k].chunk
                      /\ assignments[m].worker \in AliveWorkers
                /\ CompletedFor(assignments[k].chunk) # {}

\* C4: a worker the master has marked Failed stays Failed, and no step taken
\* after that sends it another chunk.
C4_FailedStaysExcluded ==
    [][\A w \in Workers :
          failed_nodes[w] = 1 =>
              /\ failed_nodes'[w] = 1
              /\ Cardinality(SentTo(w)') = Cardinality(SentTo(w))]_vars

C4_Witness ==
    /\ pcM = "done"
    /\ \E w \in Workers : failed_nodes[w] = 1
    /\ \E k \in AssignmentIDs : assignments[k].round = 2

\* C5: if every worker replied before its deadline, the run ends with every
\* chunk of the dataset Completed and no worker marked Failed.
C5_AllReplyAllCompleted ==
    (/\ pcM = "done"
     /\ \A w \in Workers : \E k \in SentTo(w) : assignments[k].state = "Completed")
        => /\ \A c \in ChunkIDs : CompletedFor(c) # {}
           /\ num_failed_nodes = 0

\* C6: a run that stops with a chunk lacking a Completed result and no Alive
\* worker left ends in an outcome other than the one of a successful run.
SuccessOutcome == "Data processing completed, return 0"

C6_ExhaustedIsReported ==
    (/\ pcM = "done"
     /\ \E c \in ChunkIDs : CompletedFor(c) = {}
     /\ AliveWorkers = {})
        => outcome # SuccessOutcome

\* C7: at every point at most one assignment of a chunk is active (sent and
\* neither Completed nor Lost).
C7_AtMostOneActive ==
    \A k, m \in AssignmentIDs :
        (/\ assignments[k].chunk = assignments[m].chunk
         /\ assignments[k].state = "InFlight"
         /\ assignments[m].state = "InFlight") => k = m

C7_Witness ==
    \E k, m \in AssignmentIDs :
        /\ assignments[k].chunk = assignments[m].chunk
        /\ assignments[k].round = 1 /\ assignments[k].state = "Lost"
        /\ assignments[m].round = 2 /\ assignments[m].state = "InFlight"
        /\ Cardinality({n \in AssignmentIDs : assignments[n].state = "InFlight"}) >= 2

\* C8: the result decoded from a reply that arrived in time is kept by the
\* master from then on; a later reply never overwrites it.
C8_ResultsKept ==
    \A k \in AssignmentIDs :
        assignments[k].state = "Completed" =>
            assignments[k].result = received_data

\* C9: every transfer round-trips: what a worker decodes is the chunk the
\* master encoded, all CHUNK_SIZE elements of it, and what the master decodes
\* is the chunk the worker encoded.
FirstChunk(w) == assignments[CHOOSE k \in SentTo(w) : assignments[k].round = 1].chunk

C9_RoundTrip ==
    /\ \A w \in Workers :
          pcW[w] = "process" =>
              dataW[w] = MemoryAt(FirstChunk(w) * CHUNK_SIZE, ChunkBytes)
    /\ \A k \in AssignmentIDs :
          assignments[k].state = "Completed" =>
              assignments[k].result = dataW[assignments[k].worker]

\* C10: a reply sent after the master cancelled that worker's receive is
\* never matched with a receive of the master, never observed by a poll and
\* never recorded as a result: it stays undelivered.
C10_LateReplyNeverDelivered ==
    \A w \in late :
        /\ w \notin delivered
        /\ recv_request.src # w
        /\ toMaster[w] # <<>>
        /\ \A k \in SentTo(w) : assignments[k].state # "Completed"

C10_Witness == pcM = "done" /\ late # {}

\* C11: every chunk the master sent, in either round, has been awaited (a
\* receive posted and the heartbeat wait run to Completed or Lost) by the
\* time the master finishes.
C11_EverySendAwaited ==
    pcM = "done" =>
        \A k \in AssignmentIDs : assignments[k].state # "InFlight"

\* C12: once the wait on a worker is over, the worker is marked Failed, its
\* receive cancelled and counted in num_failed_nodes exactly if no poll
\* observed its reply; a worker whose reply a poll observed is never Failed.
Waited(w) ==
    \E k \in SentTo(w) :
        assignments[k].round = 1 /\ assignments[k].state # "InFlight"

C12_FailedIffNotObserved ==
    /\ \A w \in Workers :
          /\ Waited(w) => (failed_nodes[w] = 1 <=> w \notin observed)
          /\ failed_nodes[w] = 1 <=> w \in cancelled
          /\ failed_nodes[w] = 1 => Waited(w)
          /\ w \in observed => failed_nodes[w] = 0
    /\ num_failed_nodes = Cardinality(Workers \ AliveWorkers)

C12_Witness ==
    \E w1, w2 \in Workers :
        /\ Waited(w1) /\ w1 \in observed /\ failed_nodes[w1] = 0
        /\ Waited(w2) /\ w2 \in delivered /\ failed_nodes[w2] = 1

\* C13: the master terminates, whether or not any worker ever replies.
C13_MasterTerminates == <>(pcM = "done")

C13_Witness ==
    /\ pcM = "done"
    /\ AliveWorkers = {}
    /\ \A w \in Workers : pcW[w] = "receive" /\ toMaster[w] = <<>>

\* C14: when all processes have stopped, no message of the master is left
\* unreceived.
C14_AllMessagesReceived ==
    (pcM = "done" /\ \A w \in Workers : pcW[w] = "done") =>
        \A w \in Workers : toWorker[w] = <<>>

\* C15: every chunk index c used in a send lies inside the dataset:
\* 0 <= c and (c + 1) * CHUNK_SIZE <= DATA_SIZE.
C15_ChunkIndexInRange ==
    \A k \in AssignmentIDs :
        /\ assignments[k].chunk >= 0
        /\ (assignments[k].chunk + 1) * CHUNK_SIZE <= DATA_SIZE

\* C16: in the initial distribution the k-th worker by ascending rank gets
\* the k-th chunk (rank i gets chunk i - 1), sends go out in ascending rank
\* order and no worker gets more than one chunk.
FirstRound == {k \in AssignmentIDs : assignments[k].round = 1}

C16_AscendingPairing ==
    \A k \in FirstRound :
        /\ assignments[k].chunk = assignments[k].worker - 1
        /\ assignments[k].chunk =
              Cardinality({m \in FirstRound :
                              assignments[m].worker < assignments[k].worker})
        /\ \A m \in FirstRound :
              /\ assignments[m].worker = assignments[k].worker => m = k
              /\ m < k => assignments[m].worker < assignments[k].worker

C16_Witness ==
    /\ pcM = "receive"
    /\ size >= 3
    /\ Cardinality(FirstRound) = size - 1

\* C17: process_data_multithreaded splits [0, len) into NUM_THREADS
\* contiguous sub-ranges, pairwise disjoint, covering [0, len): the first
\* NUM_THREADS - 1 of floor(len / T) elements, the last of floor(len / T) +
\* (len mod T), for every len >= 0.
C17_PartitionOfChunk ==
    tMain \in {"join", "compress", "send", "done"} =>
        /\ \A t \in ThreadIDs :
              /\ 0 <= tasks[t].start_idx
              /\ tasks[t].start_idx <= tasks[t].end_idx
              /\ tasks[t].end_idx <= tLen
              /\ tasks[t].end_idx - tasks[t].start_idx =
                    IF t < NUM_THREADS - 1
                    THEN tLen \div NUM_THREADS
                    ELSE (tLen \div NUM_THREADS) + (tLen % NUM_THREADS)
              /\ t < NUM_THREADS - 1 =>
                    tasks[t].end_idx = tasks[t + 1].start_idx
        /\ \A i \in 0 .. (tLen - 1) :
              Cardinality({t \in ThreadIDs :
                              /\ tasks[t].start_idx <= i
                              /\ i < tasks[t].end_idx}) = 1

C17_Witness ==
    /\ tMain = "join"
    /\ tLen >= NUM_THREADS
    /\ tLen % NUM_THREADS # 0

\* C18: once the worker compresses its result every thread has exited, and
\* what it sends is the encoding of the chunk as the threads left it.
C18_CompressAfterJoinAll ==
    tMain \in {"compress", "send", "done"} =>
        /\ \A t \in ThreadIDs : threads[t] = "exited"
        /\ tMain \in {"send", "done"} => tSend = compress(DestCap, tData).dest
        /\ tMain = "done" => toMaster[tRank] = <<tSend>>

C18_Witness ==
    /\ tMain = "done"
    /\ tLen >= NUM_THREADS
    /\ \E i \in 0 .. (tLen - 1) : tWrites[i] # <<>> /\ tWrites[i][1] # 0

\* C19: for a chunk of CHUNK_SIZE elements the threads leave the chunk that
\* lab2's process_data computes, every element multiplied by the rank once
\* and written by one thread.
C19_SameAsProcessData ==
    (tMain \in {"compress", "send", "done"} /\ tLen = CHUNK_SIZE) =>
        /\ tData = process_data(tRank, tData0)
        /\ \A i \in 0 .. (CHUNK_SIZE - 1) : Len(tWrites[i]) = 1

C19_Witness ==
    /\ tMain = "compress"
    /\ tLen = CHUNK_SIZE
    /\ tRank > 1
    /\ tData # tData0

====
